---- MODULE Spec2Model ----
(***************************************************************************)
(* A model of git-cml's hierarchical parameter store:                      *)
(*   src/git_theta/utils.py   flatten, unflatten, walk_dir,                *)
(*                            walk_parameter_dir, removed_params           *)
(*   src/git_cml/git_utils.py create_git_cml, create_git_cml_model_dir     *)
(* Python values are modelled as tagged records: a dict is Dict(f) with f  *)
(* a function from its keys to values, any other object is Leaf(v).  A     *)
(* call that raises is the result Raise(e); one that returns v is Ok(v).   *)
(***************************************************************************)
EXTENDS Integers, Sequences, FiniteSets, Bags, TLC

VARIABLES
  pc,          \* position of the single-threaded caller of utils.py
  t,           \* the nested dict handed to flatten
  flat,        \* what flatten(t) returned or raised
  d,           \* the items of the dict handed to unflatten, in iteration order
  nested,      \* what unflatten(d) returned or raised
  new_model,   \* removed_params' first argument
  old_model,   \* removed_params' second argument
  yielded,     \* what draining removed_params(new_model, old_model) gave
  fs,          \* the filesystem node at walk_dir's root path
  pred,        \* the is_leaf predicate handed to walk_dir
  stack,       \* the active _walk_dir calls, the innermost last
  evals,       \* the bag of paths is_leaf has been called on
  listed,      \* the bag of paths _walk_dir has called os.listdir on
  walked,      \* what walk_dir returned or raised
  disk,        \* the paths that exist under the repository, each "dir" or "file"
  procs,       \* per process: its running call of git_utils.py and where it is
  calls,       \* the calls of git_utils.py started so far
  returned     \* <<function, model_path, path returned>> of the calls that returned

codecVars == <<t, flat, d, nested>>
diffVars == <<new_model, old_model, yielded>>
walkVars == <<fs, pred, stack, evals, listed, walked>>
utilsVars == <<pc, codecVars, diffVars, walkVars>>
dirVars == <<disk, procs, calls, returned>>
vars == <<utilsVars, dirVars>>

(***************************************************************************)
(* Bounds of the model.                                                    *)
(***************************************************************************)
MaxDepth == 2      \* nesting depth of the dicts, length of the key paths
MaxEntries == 2    \* entries of a flattened mapping handed to unflatten
MaxDirDepth == 3   \* levels of entries below walk_dir's root
MaxCalls == 3      \* calls of create_git_cml / create_git_cml_model_dir

Vals == {1, 2, 3}  \* the opaque leaf payloads
UKeys == {"x", "y"}   \* the segments of the key paths handed to unflatten
UVals == {5, 6}       \* the payloads handed to unflatten

\* The keys a dict of nesting level l may hold (levels alternate so that the
\* set of trees stays enumerable and holds {"a": {"b": 1, "c": 2}, "d": 3}).
KeysAt(l) == IF l % 2 = 1 THEN {"a", "d"} ELSE {"b", "c"}
Keys == KeysAt(1) \cup KeysAt(2)

(***************************************************************************)
(* Python values and call results.                                         *)
(***************************************************************************)
Leaf(v) == [tag |-> "leaf", val |-> v]
Dict(f) == [tag |-> "dict", items |-> f]
EmptyDict == Dict(<<>>)

Ok(v) == [exc |-> "none", val |-> v]
Raise(e) == [exc |-> e, val |-> <<>>]
NotCalled == [exc |-> "not called", val |-> <<>>]

isinstance_dict(v) == v.tag = "dict"

\* flatten's default predicate: lambda v: not isinstance(v, dict)
is_leaf(v) == ~isinstance_dict(v)

\* dict.update over the per-key results: the union of mappings; the key paths
\* of two different keys k never collide, each starts with prefix + (k,).
update_all(S) ==
  [p \in UNION {DOMAIN f : f \in S} |-> (CHOOSE f \in S : p \in DOMAIN f)[p]]

\* _flatten(d, prefix): the loop over d.items().  d.items() raises
\* AttributeError when d is no dict; a raise inside the loop ends the call.
RECURSIVE _flatten(_, _)
_flatten(n, prefix) ==
  IF ~isinstance_dict(n) THEN Raise("AttributeError")
  ELSE LET sub(k) ==
             IF is_leaf(n.items[k])
               THEN _flatten(n.items[k], Append(prefix, k))
               ELSE Ok(Append(prefix, k) :> n.items[k])
       IN IF \E k \in DOMAIN n.items : sub(k).exc /= "none"
            THEN Raise("AttributeError")
            ELSE Ok(update_all({sub(k).val : k \in DOMAIN n.items}))

flatten(n) == _flatten(n, <<>>)

(***************************************************************************)
(* unflatten                                                               *)
(***************************************************************************)
\* The variant curr[k] = {}: a new dict under k whatever was there.
setdefault_fresh(curr, k) == EmptyDict

\* curr.setdefault(k, {}): the value under k, an empty dict when k is new.
setdefault(curr, k) ==
  IF k \in DOMAIN curr.items THEN curr.items[k] ELSE EmptyDict

\* curr[k] = v
setitem(curr, k, v) ==
  Dict([x \in DOMAIN curr.items \cup {k} |-> IF x = k THEN v ELSE curr.items[x]])

\* One pass of the loop body for the entry (ks, v), seen from the node curr
\* that the walk over ks[:-1] has reached; the result is curr as the pass
\* leaves it.  The dicts are shared objects, so an update below curr is an
\* update of curr.
\*   ks = ()         ks[-1] raises IndexError
\*   curr no dict    curr.setdefault raises AttributeError, curr[k] = v TypeError
RECURSIVE insert(_, _, _)
insert(curr, ks, v) ==
  IF ks = <<>> THEN Raise("IndexError")
  ELSE IF Len(ks) = 1
    THEN IF isinstance_dict(curr) THEN Ok(setitem(curr, ks[1], v))
         ELSE Raise("TypeError")
  ELSE IF ~isinstance_dict(curr) THEN Raise("AttributeError")
  ELSE LET below == insert(setdefault(curr, ks[1]), Tail(ks), v)
       IN IF below.exc /= "none" THEN below
          ELSE Ok(setitem(curr, ks[1], below.val))

\* unflatten(d): d's entries <<ks, v>> are taken in d's iteration order.
RECURSIVE unflatten_from(_, _)
unflatten_from(acc, items) ==
  IF items = <<>> THEN Ok(acc)
  ELSE LET r == insert(acc, Head(items)[1], Head(items)[2])
       IN IF r.exc /= "none" THEN r ELSE unflatten_from(r.val, Tail(items))

unflatten(items) == unflatten_from(EmptyDict, items)

(***************************************************************************)
(* removed_params                                                          *)
(***************************************************************************)
RECURSIVE BagOf(_, _)
BagOf(f, S) ==
  IF S = {} THEN EmptyBag
  ELSE LET k == CHOOSE x \in S : TRUE
       IN BagOf(f, S \ {k}) (+) SetToBag({f[k]})

\* Draining the generator: both flatten calls run first, then one value of
\* the old mapping is yielded per key of old_model.keys() - new_model.keys().
removed_params(new, old) ==
  LET n == flatten(new)
      o == flatten(old)
  IN IF n.exc /= "none" THEN Raise(n.exc)
     ELSE IF o.exc /= "none" THEN Raise(o.exc)
     ELSE Ok(BagOf(o.val, DOMAIN o.val \ DOMAIN n.val))

(***************************************************************************)
(* walk_dir and walk_parameter_dir                                         *)
(***************************************************************************)
\* A filesystem node: a regular file, a directory with its entries by name,
\* or nothing at all.
File == [kind |-> "file"]
Dir(e) == [kind |-> "dir", ents |-> e]
Absent == [kind |-> "absent"]

\* walk_dir's root argument; a path is the tuple of its segments, and
\* os.path.join(*root, d) appends a segment.
RootName == "root"
join(root, name) == Append(root, name)

\* The node under `names` below node n.
RECURSIVE FsGet(_, _)
FsGet(n, names) ==
  IF names = <<>> THEN n
  ELSE IF n.kind = "dir" /\ names[1] \in DOMAIN n.ents
    THEN FsGet(n.ents[names[1]], Tail(names))
  ELSE Absent

NodeAt(path) == FsGet(fs, Tail(path))

\* The variant that lists a regular file as if it were an empty directory.
os_listdir_lenient(path) ==
  LET n == NodeAt(path)
  IN IF n.kind = "dir" THEN Ok(DOMAIN n.ents)
     ELSE IF n.kind = "file" THEN Ok({})
     ELSE Raise("FileNotFoundError")

\* os.listdir(path)
os_listdir(path) ==
  LET n == NodeAt(path)
  IN IF n.kind = "dir" THEN Ok(DOMAIN n.ents)
     ELSE IF n.kind = "file" THEN Raise("NotADirectoryError")
     ELSE Raise("FileNotFoundError")

\* The predicates: walk_parameter_dir's, "params" in os.listdir(path), and a
\* caller's own, here the ones that decide by the entry's name.
HasParams == [kind |-> "has_params", names |-> {}]
ByName(L) == [kind |-> "by_name", names |-> L]

\* The variant with the test inverted, as in `if not is_leaf(full_path)`.
call_is_leaf_inverted(full_path) ==
  IF pred.kind = "has_params"
    THEN LET l == os_listdir(full_path)
         IN IF l.exc /= "none" THEN l ELSE Ok("params" \notin l.val)
    ELSE Ok(full_path[Len(full_path)] \notin pred.names)

call_is_leaf(full_path) ==
  IF pred.kind = "has_params"
    THEN LET l == os_listdir(full_path)
         IN IF l.exc /= "none" THEN l ELSE Ok("params" \in l.val)
    ELSE Ok(full_path[Len(full_path)] \in pred.names)

Frame(root, todo) == [root |-> root, todo |-> todo, dir_dict |-> <<>>]

Top == stack[Len(stack)]
SetTop(f) == [stack EXCEPT ![Len(stack)] = f]

\* dir_dict[name] = v in frame f; the loop is done with name.
Record(f, name, v) ==
  [f EXCEPT !.todo = @ \ {name},
            !.dir_dict = [x \in DOMAIN @ \cup {name} |-> IF x = name THEN v ELSE @[x]]]

(***************************************************************************)
(* create_git_cml and create_git_cml_model_dir (git_utils.py)              *)
(***************************************************************************)
\* A path string is the tuple of its segments, a segment the tuple of its
\* characters; model_path is one tuple of characters, separators included.
WorkingDir == <<"w">>                                   \* repo.working_dir
DotGitCml == <<".", "g", "i", "t", "_", "c", "m", "l">> \* ".git_cml"

LastIndexOf(s, c) ==
  LET hits == {i \in 1..Len(s) : s[i] = c}
  IN IF hits = {} THEN 0 ELSE CHOOSE i \in hits : \A j \in hits : j <= i

\* os.path.basename(p): what follows the last "/".
basename(p) == SubSeq(p, LastIndexOf(p, "/") + 1, Len(p))

\* os.path.splitext(p)[0]: p up to its last dot, unless that dot is one of
\* the leading dots of the file name.
splitext_root(p) ==
  LET sepIndex == LastIndexOf(p, "/")
      dotIndex == LastIndexOf(p, ".")
  IN IF dotIndex > sepIndex /\ \E i \in (sepIndex + 1)..(dotIndex - 1) : p[i] /= "."
       THEN SubSeq(p, 1, dotIndex - 1)
       ELSE p

\* git_cml = os.path.join(repo.working_dir, ".git_cml")
git_cml_path == join(<<WorkingDir>>, DotGitCml)

\* git_cml_model = os.path.join(git_cml, os.path.splitext(model_file)[0])
git_cml_model_path(model_path) ==
  join(git_cml_path, splitext_root(basename(model_path)))

\* The directory a path string names: "" and "." segments stay, ".." leaves.
RECURSIVE normpath_from(_, _)
normpath_from(at, rest) ==
  IF rest = <<>> THEN at
  ELSE IF Head(rest) \in {<<>>, <<".">>} THEN normpath_from(at, Tail(rest))
  ELSE IF Head(rest) = <<".", ".">>
    THEN normpath_from(IF at = <<>> THEN at ELSE SubSeq(at, 1, Len(at) - 1), Tail(rest))
  ELSE normpath_from(Append(at, Head(rest)), Tail(rest))

normpath(path) == normpath_from(<<>>, path)

\* The variant os.path.isfile(path): false of every directory.
os_path_isfile(dk, path) ==
  normpath(path) \in DOMAIN dk /\ dk[normpath(path)] = "file"

\* os.path.exists(path) on the disk dk (a function from the paths that exist
\* to "dir" or "file").
os_path_exists(dk, path) == normpath(path) \in DOMAIN dk

\* os.makedirs(path): FileExistsError when path exists, NotADirectoryError
\* when an ancestor is a regular file; else path and its missing ancestors
\* become directories and nothing else changes.
os_makedirs(dk, path) ==
  LET n == normpath(path)
      upto == {SubSeq(n, 1, i) : i \in 1..Len(n)}
  IN IF n \in DOMAIN dk THEN Raise("FileExistsError")
     ELSE IF \E a \in upto \cap DOMAIN dk : dk[a] = "file" THEN Raise("NotADirectoryError")
     ELSE Ok([q \in DOMAIN dk \cup upto |-> IF q \in DOMAIN dk THEN dk[q] ELSE "dir"])

(***************************************************************************)
(* The inputs.                                                             *)
(***************************************************************************)
\* The dicts of nesting level l: every value is a leaf or, above MaxDepth, a
\* dict of the next level.
RECURSIVE DictsAt(_)
DictsAt(l) ==
  LET values == {Leaf(v) : v \in Vals}
                  \cup (IF l < MaxDepth THEN DictsAt(l + 1) ELSE {})
  IN {Dict(f) : f \in UNION {[S -> values] : S \in SUBSET KeysAt(l)}}

Trees == DictsAt(1)

KeyPaths == UNION {[1..n -> Keys] : n \in 0..MaxDepth}

\* The mappings a caller can hand to unflatten, as their items in iteration
\* order: up to MaxEntries entries under different key paths (a tuple of up
\* to MaxDepth segments, the empty tuple included).
UKeyPaths == UNION {[1..n -> UKeys] : n \in 0..MaxDepth}
UEntries == {<<ks, Leaf(v)>> : ks \in UKeyPaths, v \in UVals}
FlatInputs ==
  UNION {{s \in [1..n -> UEntries] : \A i, j \in 1..n : s[i][1] = s[j][1] => i = j}
           : n \in 0..MaxEntries}

\* The orders in which a mapping's items can be iterated.
ItemOrders(f) ==
  LET n == Cardinality(DOMAIN f)
      orders == {s \in [1..n -> DOMAIN f] : \A i, j \in 1..n : s[i] = s[j] => i = j}
  IN {[i \in 1..n |-> <<s[i], f[s[i]]>>] : s \in orders}

\* The directory trees: the entries of level l are named by NamesAt(l); an
\* entry is a regular file or a directory; the root may also be missing or a
\* regular file.
NamesAt(l) ==
  IF l = 1 THEN {"layer0", "layer1"}
  ELSE IF l = 2 THEN {"sub", "params"}
  ELSE {"params"}

RECURSIVE Contents(_)
Contents(l) ==
  IF l > MaxDirDepth THEN {<<>>}
  ELSE LET nodes == {File} \cup {Dir(e) : e \in Contents(l + 1)}
       IN UNION {[S -> nodes] : S \in SUBSET NamesAt(l)}

Roots == {Absent, File} \cup {Dir(e) : e \in Contents(1)}

Predicates == {HasParams} \cup {ByName(L) : L \in SUBSET {"layer0", "sub", "params"}}

\* The model_path arguments: "m", "m.pt", "d/m.pt", "n.b", ".m", "d/".
ModelPaths ==
  { <<"m">>, <<"m", ".", "p", "t">>, <<"d", "/", "m", ".", "p", "t">>,
    <<"n", ".", "b">>, <<".", "m">>, <<"d", "/">> }

Procs == {1, 2}

\* A process that runs no call.
IdleProc ==
  [pc |-> "idle", fn |-> "none", model_path |-> <<>>, before |-> <<>>,
   ret |-> <<>>, exc |-> "none"]

\* The repository before the first call: without .git_cml, with an empty one,
\* and with one that holds the directory of model m and a parameter file.
BareRepo == <<WorkingDir>> :> "dir"
EmptyGitCml == BareRepo @@ (git_cml_path :> "dir")
UsedGitCml ==
  EmptyGitCml @@ (join(git_cml_path, <<"m">>) :> "dir")
              @@ (join(join(git_cml_path, <<"m">>), <<"p">>) :> "file")
Disks == {BareRepo, EmptyGitCml, UsedGitCml}

(***************************************************************************)
(* The parts of the state a specification does not use stay as they are.   *)
(***************************************************************************)
IdleCodec == t = EmptyDict /\ flat = NotCalled /\ d = <<>> /\ nested = NotCalled
IdleDiff == new_model = EmptyDict /\ old_model = EmptyDict /\ yielded = NotCalled
IdleWalk ==
  /\ fs = Absent /\ pred = HasParams /\ stack = <<>>
  /\ evals = EmptyBag /\ listed = EmptyBag /\ walked = NotCalled
IdleDirs ==
  /\ disk = BareRepo /\ procs = [p \in Procs |-> IdleProc]
  /\ calls = 0 /\ returned = {}

(***************************************************************************)
(* Specification SpecCodec: flatten a tree, then unflatten the result.     *)
(***************************************************************************)
InitCodec ==
  /\ pc = "start"
  /\ t \in Trees
  /\ flat = NotCalled /\ d = <<>> /\ nested = NotCalled
  /\ IdleDiff /\ IdleWalk /\ IdleDirs

\* flat = flatten(t)
CallFlatten ==
  /\ pc = "start"
  /\ flat' = flatten(t)
  /\ pc' = IF flat'.exc = "none" THEN "flattened" ELSE "raised"
  /\ UNCHANGED <<t, d, nested, diffVars, walkVars, dirVars>>

\* nested = unflatten(flat)
CallUnflattenFlat ==
  /\ pc = "flattened"
  /\ \E e \in ItemOrders(flat.val) :
       /\ d' = e
       /\ nested' = unflatten(e)
  /\ pc' = IF nested'.exc = "none" THEN "done" ELSE "raised"
  /\ UNCHANGED <<t, flat, diffVars, walkVars, dirVars>>

NextCodec == CallFlatten \/ CallUnflattenFlat

SpecCodec == InitCodec /\ [][NextCodec]_vars

(***************************************************************************)
(* Specification SpecUnflatten: unflatten a caller's flattened mapping.    *)
(***************************************************************************)
InitUnflatten ==
  /\ pc = "start"
  /\ d \in FlatInputs
  /\ t = EmptyDict /\ flat = NotCalled /\ nested = NotCalled
  /\ IdleDiff /\ IdleWalk /\ IdleDirs

\* nested = unflatten(d)
CallUnflatten ==
  /\ pc = "start"
  /\ nested' = unflatten(d)
  /\ pc' = IF nested'.exc = "none" THEN "done" ELSE "raised"
  /\ UNCHANGED <<t, flat, d, diffVars, walkVars, dirVars>>

NextUnflatten == CallUnflatten

SpecUnflatten == InitUnflatten /\ [][NextUnflatten]_vars

(***************************************************************************)
(* Specification SpecDiff: drain removed_params(new_model, old_model).     *)
(***************************************************************************)
InitDiff ==
  /\ pc = "start"
  /\ new_model \in Trees
  /\ old_model \in Trees
  /\ yielded = NotCalled
  /\ IdleCodec /\ IdleWalk /\ IdleDirs

\* yielded = list(removed_params(new_model, old_model))
CallRemovedParams ==
  /\ pc = "start"
  /\ yielded' = removed_params(new_model, old_model)
  /\ pc' = IF yielded'.exc = "none" THEN "done" ELSE "raised"
  /\ UNCHANGED <<new_model, old_model, codecVars, walkVars, dirVars>>

NextDiff == CallRemovedParams

SpecDiff == InitDiff /\ [][NextDiff]_vars

(***************************************************************************)
(* Specification SpecWalk: walk_dir over a directory tree, then flatten.   *)
(***************************************************************************)
\* walk_dir(root, is_leaf): the call _walk_dir((root,)) lists root.
CallWalkDir ==
  /\ pc = "start"
  /\ LET l == os_listdir(<<RootName>>)
     IN /\ listed' = listed (+) SetToBag({<<RootName>>})
        /\ IF l.exc = "none"
             THEN /\ stack' = <<Frame(<<RootName>>, l.val)>>
                  /\ pc' = "walking"
                  /\ walked' = walked
             ELSE /\ stack' = <<>>
                  /\ pc' = "raised"
                  /\ walked' = Raise(l.exc)
  /\ UNCHANGED <<fs, pred, evals, codecVars, diffVars, dirVars>>

\* One pass of the loop for an entry that is_leaf holds of:
\* dir_dict[d] = full_path.
VisitLeaf ==
  /\ pc = "walking"
  /\ \E name \in Top.todo :
       LET full_path == join(Top.root, name)
           leaf == call_is_leaf(full_path)
       IN /\ leaf.exc = "none" /\ leaf.val
          /\ evals' = evals (+) SetToBag({full_path})
          /\ stack' = SetTop(Record(Top, name, Leaf(full_path)))
  /\ UNCHANGED <<pc, fs, pred, listed, walked, codecVars, diffVars, dirVars>>

\* One pass of the loop for an entry that is_leaf does not hold of: the call
\* _walk_dir(root + (d,)) lists it and starts its own loop.
Descend ==
  /\ pc = "walking"
  /\ \E name \in Top.todo :
       LET full_path == join(Top.root, name)
           leaf == call_is_leaf(full_path)
           l == os_listdir(full_path)
       IN /\ leaf.exc = "none" /\ ~leaf.val
          /\ l.exc = "none"
          /\ evals' = evals (+) SetToBag({full_path})
          /\ listed' = listed (+) SetToBag({full_path})
          /\ stack' = Append(stack, Frame(full_path, l.val))
  /\ UNCHANGED <<pc, fs, pred, walked, codecVars, diffVars, dirVars>>

\* is_leaf raises, or it does not hold and os.listdir raises: nothing catches
\* the exception, every active call is left and walk_dir raises.
VisitRaises ==
  /\ pc = "walking"
  /\ \E name \in Top.todo :
       LET full_path == join(Top.root, name)
           leaf == call_is_leaf(full_path)
           l == os_listdir(full_path)
       IN /\ evals' = evals (+) SetToBag({full_path})
          /\ \/ /\ leaf.exc /= "none"
                /\ walked' = Raise(leaf.exc)
                /\ listed' = listed
             \/ /\ leaf.exc = "none" /\ ~leaf.val
                /\ l.exc /= "none"
                /\ walked' = Raise(l.exc)
                /\ listed' = listed (+) SetToBag({full_path})
  /\ stack' = <<>>
  /\ pc' = "raised"
  /\ UNCHANGED <<fs, pred, codecVars, diffVars, dirVars>>

\* The loop of the innermost call is over: return dir_dict, to the caller's
\* dir_dict[d] or, from the outermost call, as walk_dir's result.
Return ==
  /\ pc = "walking"
  /\ Top.todo = {}
  /\ IF Len(stack) = 1
       THEN /\ walked' = Ok(Dict(Top.dir_dict))
            /\ stack' = <<>>
            /\ pc' = "done"
       ELSE LET caller == stack[Len(stack) - 1]
                name == Top.root[Len(Top.root)]
            IN /\ stack' = [SubSeq(stack, 1, Len(stack) - 1) EXCEPT
                              ![Len(stack) - 1] = Record(caller, name, Dict(Top.dir_dict))]
               /\ UNCHANGED <<walked, pc>>
  /\ UNCHANGED <<fs, pred, evals, listed, codecVars, diffVars, dirVars>>

\* flat = flatten(walk_dir(root, is_leaf))
CallFlattenWalked ==
  /\ pc = "done"
  /\ flat' = flatten(walked.val)
  /\ pc' = "flattened"
  /\ UNCHANGED <<t, d, nested, diffVars, walkVars, dirVars>>

InitWalk ==
  /\ pc = "start"
  /\ fs \in Roots
  /\ pred \in Predicates
  /\ stack = <<>> /\ evals = EmptyBag /\ listed = EmptyBag /\ walked = NotCalled
  /\ IdleCodec /\ IdleDiff /\ IdleDirs

NextWalk ==
  \/ CallWalkDir
  \/ VisitLeaf
  \/ Descend
  \/ VisitRaises
  \/ Return
  \/ CallFlattenWalked

SpecWalk == InitWalk /\ [][NextWalk]_vars

(***************************************************************************)
(* Specifications SpecDirs (calls one after another) and SpecDirsConc (two *)
(* processes whose calls interleave at their file-system operations).      *)
(***************************************************************************)
\* The directory the running call of process p checks and creates next.
Target(p) ==
  IF procs[p].pc \in {"cml_exists", "cml_makedirs", "cml_return"}
    THEN git_cml_path
    ELSE git_cml_model_path(procs[p].model_path)

Idle(p) == procs[p].pc = "idle"

\* A process calls create_git_cml(repo).
Call_create_git_cml(p) ==
  /\ Idle(p)
  /\ calls < MaxCalls
  /\ calls' = calls + 1
  /\ procs' = [procs EXCEPT ![p] = [pc |-> "cml_exists", fn |-> "create_git_cml",
                                    model_path |-> <<>>, before |-> disk, ret |-> <<>>, exc |-> "none"]]
  /\ UNCHANGED <<disk, returned, utilsVars>>

\* A process calls create_git_cml_model_dir(repo, model_path); its first
\* statement is the call create_git_cml(repo).
Call_create_git_cml_model_dir(p) ==
  /\ Idle(p)
  /\ calls < MaxCalls
  /\ calls' = calls + 1
  /\ \E mp \in ModelPaths :
       procs' = [procs EXCEPT ![p] = [pc |-> "cml_exists", fn |-> "create_git_cml_model_dir",
                                      model_path |-> mp, before |-> disk, ret |-> <<>>, exc |-> "none"]]
  /\ UNCHANGED <<disk, returned, utilsVars>>

\* if not os.path.exists(...): of either function.
Exists(p) ==
  /\ procs[p].pc \in {"cml_exists", "model_exists"}
  /\ LET found == os_path_exists(disk, Target(p))
         make == IF procs[p].pc = "cml_exists" THEN "cml_makedirs" ELSE "model_makedirs"
         skip == IF procs[p].pc = "cml_exists" THEN "cml_return" ELSE "model_return"
     IN procs' = [procs EXCEPT ![p].pc = IF found THEN skip ELSE make]
  /\ UNCHANGED <<disk, calls, returned, utilsVars>>

\* os.makedirs(...) of either function; an exception ends the call.
Makedirs(p) ==
  /\ procs[p].pc \in {"cml_makedirs", "model_makedirs"}
  /\ LET made == os_makedirs(disk, Target(p))
         next == IF procs[p].pc = "cml_makedirs" THEN "cml_return" ELSE "model_return"
     IN IF made.exc = "none"
          THEN /\ disk' = made.val
               /\ procs' = [procs EXCEPT ![p].pc = next]
          ELSE /\ disk' = disk
               /\ procs' = [procs EXCEPT ![p].pc = "raised", ![p].exc = made.exc]
  /\ UNCHANGED <<calls, returned, utilsVars>>

\* return git_cml: to the caller of create_git_cml, or into
\* create_git_cml_model_dir, which goes on to its own check.
ReturnGitCml(p) ==
  /\ procs[p].pc = "cml_return"
  /\ IF procs[p].fn = "create_git_cml"
       THEN /\ procs' = [procs EXCEPT ![p].pc = "idle", ![p].ret = git_cml_path]
            /\ returned' = returned \cup {<<procs[p].fn, procs[p].model_path, git_cml_path>>}
       ELSE /\ procs' = [procs EXCEPT ![p].pc = "model_exists"]
            /\ returned' = returned
  /\ UNCHANGED <<disk, calls, utilsVars>>

\* return git_cml_model
ReturnModelDir(p) ==
  /\ procs[p].pc = "model_return"
  /\ procs' = [procs EXCEPT ![p].pc = "idle",
                            ![p].ret = git_cml_model_path(procs[p].model_path)]
  /\ returned' = returned \cup
       {<<procs[p].fn, procs[p].model_path, git_cml_model_path(procs[p].model_path)>>}
  /\ UNCHANGED <<disk, calls, utilsVars>>

InitDirs ==
  /\ disk \in Disks
  /\ procs = [p \in Procs |-> IdleProc]
  /\ calls = 0
  /\ returned = {}
  /\ pc = "start" /\ IdleCodec /\ IdleDiff /\ IdleWalk

NextDirs ==
  \/ Call_create_git_cml(1)
  \/ Call_create_git_cml_model_dir(1)
  \/ Exists(1)
  \/ Makedirs(1)
  \/ ReturnGitCml(1)
  \/ ReturnModelDir(1)

SpecDirs == InitDirs /\ [][NextDirs]_vars

NextDirsConc ==
  \E p \in Procs :
    \/ Call_create_git_cml(p)
    \/ Call_create_git_cml_model_dir(p)
    \/ Exists(p)
    \/ Makedirs(p)
    \/ ReturnGitCml(p)
    \/ ReturnModelDir(p)

SpecDirsConc == InitDirs /\ [][NextDirsConc]_vars

(***************************************************************************)
(* What the claims speak of: the leaves of a tree by their key paths.      *)
(***************************************************************************)
Missing == [tag |-> "missing"]

\* The node of tree n under the key path p.
RECURSIVE Get(_, _)
Get(n, p) ==
  IF p = <<>> THEN n
  ELSE IF n.tag = "dict" /\ p[1] \in DOMAIN n.items THEN Get(n.items[p[1]], Tail(p))
  ELSE Missing

LeafPaths(n) == {p \in KeyPaths \ {<<>>} : Get(n, p).tag = "leaf"}
LeafMap(n) == [p \in LeafPaths(n) |-> Get(n, p)]

\* A dict below the root that holds nothing: flatten has no entry for it.
HasEmptyBranch(n) == \E p \in KeyPaths \ {<<>>} : Get(n, p) = EmptyDict

IsProperPrefix(p, q) == Len(p) < Len(q) /\ SubSeq(q, 1, Len(p)) = p

PrefixConflict(items) ==
  \E i, j \in 1..Len(items) : IsProperPrefix(items[i][1], items[j][1])

WellFormed(items) ==
  /\ \A i \in 1..Len(items) : items[i][1] /= <<>>
  /\ ~PrefixConflict(items)

SameResult(a, b) == a.exc = b.exc /\ (a.exc = "none" => a.val = b.val)

(***************************************************************************)
(* C1: flatten(t) returns exactly one entry per leaf of t, keyed by the    *)
(* path of keys from the root to the leaf and holding the leaf verbatim,   *)
(* and it does not raise.  (SpecCodec)                                     *)
(***************************************************************************)
C1_FlattenOneEntryPerLeaf ==
  pc /= "start" => (flat.exc = "none" /\ flat.val = LeafMap(t))

(***************************************************************************)
(* C2: the round trip: for a tree without empty-dict branches,             *)
(* unflatten(flatten(t)) completes without error and equals t.  (SpecCodec)*)
(***************************************************************************)
C2_RoundTrip ==
  (pc \in {"raised", "done"} /\ ~HasEmptyBranch(t))
    => (pc = "done" /\ nested.exc = "none" /\ nested.val = t)

(***************************************************************************)
(* C3: removed_params(new, old) yields exactly the old leaves whose key    *)
(* path is no key path of a leaf of new, as a multiset.  (SpecDiff)        *)
(***************************************************************************)
C3_RemovedIsKeyDifference ==
  pc /= "start"
    => /\ yielded.exc = "none"
       /\ yielded.val = BagOf(LeafMap(old_model),
                              LeafPaths(old_model) \ LeafPaths(new_model))

(***************************************************************************)
(* C4: unflatten raises whenever one key path of its input is a proper     *)
(* prefix of another, in every iteration order.  (SpecUnflatten)           *)
(***************************************************************************)
C4_PrefixConflictRaises ==
  (pc /= "start" /\ PrefixConflict(d)) => nested.exc /= "none"

(***************************************************************************)
(* C9: for non-empty, unique, prefix-free key paths unflatten returns the  *)
(* same tree whatever the order of the entries.  (SpecUnflatten)           *)
(***************************************************************************)
C9_UnflattenOrderIndependent ==
  (pc /= "start" /\ WellFormed(d))
    => /\ nested.exc = "none"
       /\ \A s \in Permutations(1..Len(d)) :
            SameResult(unflatten([i \in 1..Len(d) |-> d[s[i]]]), nested)

\* Two entries that share their first segment have been unflattened.
C9_Witness ==
  /\ pc = "done" /\ WellFormed(d) /\ Len(d) = 2
  /\ Len(d[1][1]) = 2 /\ Len(d[2][1]) = 2 /\ d[1][1][1] = d[2][1][1]
  /\ d[1][2] /= d[2][2]

(***************************************************************************)
(* What the claims about walk_dir speak of.                                *)
(***************************************************************************)
\* The paths of the entries that exist below the root; an entry of level l
\* has one of the names NamesAt(l).
RECURSIVE NamePaths(_)
NamePaths(n) ==
  IF n = 0 THEN {<<RootName>>}
  ELSE {Append(p, x) : p \in NamePaths(n - 1), x \in NamesAt(n)}

EntryPaths ==
  {p \in UNION {NamePaths(n) : n \in 1..MaxDirDepth} : NodeAt(p).kind /= "absent"}

\* Whether the predicate holds of the entry at p, read off the directory tree.
Holds(p) ==
  IF pred.kind = "has_params"
    THEN NodeAt(p).kind = "dir" /\ "params" \in DOMAIN NodeAt(p).ents
    ELSE p[Len(p)] \in pred.names

\* The entries the traversal comes to: those with no leaf-marked directory
\* between the root and themselves.
Encountered ==
  {p \in EntryPaths : \A i \in 2..(Len(p) - 1) : ~Holds(SubSeq(p, 1, i))}

LeafEntries == {p \in Encountered : Holds(p)}

\* An entry the traversal comes to that is no directory and no leaf.
StrayEntry == \E p \in Encountered : NodeAt(p).kind = "file" /\ ~Holds(p)

Beneath(q, p) == IsProperPrefix(p, q)

\* root/layer0/params, root/layer1/sub/params
Example3Fs ==
  Dir([n \in {"layer0", "layer1"} |->
         IF n = "layer0" THEN Dir([m \in {"params"} |-> Dir(<<>>)])
         ELSE Dir([m \in {"sub"} |-> Dir([k \in {"params"} |-> Dir(<<>>)])])])

Example3Tree ==
  Dict([n \in {"layer0", "layer1"} |->
          IF n = "layer0" THEN Leaf(<<RootName, "layer0">>)
          ELSE Dict([m \in {"sub"} |-> Leaf(<<RootName, "layer1", "sub">>)])])

(***************************************************************************)
(* C5: flatten(walk_dir(root, is_leaf)) has exactly one entry per          *)
(* leaf-marked directory, keyed by the directory names from the root down  *)
(* to it and holding its full path.  (SpecWalk)                            *)
(***************************************************************************)
C5_FlattenOfWalkOneEntryPerLeafDir ==
  (pc = "flattened" /\ \A p \in LeafEntries : NodeAt(p).kind = "dir")
    => /\ flat.exc = "none"
       /\ flat.val = [k \in {Tail(p) : p \in LeafEntries} |-> Leaf(<<RootName>> \o k)]

(***************************************************************************)
(* C6: walk_dir raises, and returns no tree, when root is no directory and *)
(* when the traversal comes to an entry that is neither a directory nor a  *)
(* leaf.  (SpecWalk)                                                       *)
(***************************************************************************)
C6_WalkDirFailsWithoutResult ==
  (pc \notin {"start", "walking"} /\ (fs.kind /= "dir" \/ StrayEntry))
    => /\ pc = "raised"
       /\ walked.exc \notin {"none", "not called"}
       /\ stack = <<>>

\* A walk with a caller's predicate has come to a stray regular file below
\* an existing root directory.
C6_Witness ==
  /\ pc = "raised" /\ fs.kind = "dir" /\ pred.kind = "by_name" /\ StrayEntry
  /\ evals /= EmptyBag

(***************************************************************************)
(* C8: is_leaf is called exactly once on each entry the traversal comes to *)
(* and never on root; a leaf entry is recorded as name -> full path and    *)
(* nothing beneath it is listed, evaluated or recorded; any other entry is *)
(* recorded as name -> the tree of its own entries.  (SpecWalk)            *)
(***************************************************************************)
C8_WalkStopsAtLeaves ==
  LET evaluated == BagToSet(evals)
      enumerated == BagToSet(listed)
      encountered == Encountered
  IN /\ evaluated \subseteq encountered
     /\ <<RootName>> \notin evaluated
     /\ \A p \in evaluated :
          /\ CopiesIn(p, evals) = 1
          /\ Holds(p) => /\ p \notin enumerated
                         /\ \A q \in evaluated \cup enumerated : ~Beneath(q, p)
     /\ walked.exc = "none" =>
          /\ evaluated = encountered
          /\ DOMAIN walked.val.items = DOMAIN fs.ents
          /\ \A p \in encountered :
               LET v == Get(walked.val, Tail(p))
               IN IF Holds(p) THEN v = Leaf(p)
                  ELSE v.tag = "dict" /\ DOMAIN v.items = DOMAIN NodeAt(p).ents
     /\ (fs = Example3Fs /\ pred = HasParams /\ pc \notin {"start", "walking"})
          => (walked.exc = "none" /\ walked.val = Example3Tree)

\* walk_parameter_dir has returned from the tree of the example.
C8_Witness ==
  /\ pc = "done" /\ fs = Example3Fs /\ pred = HasParams
  /\ walked.exc = "none" /\ BagToSet(evals) /= {}

(***************************************************************************)
(* What the claims about the .git_cml directories speak of.                *)
(***************************************************************************)
Returned(p) == Idle(p) /\ procs[p].fn /= "none"

IsDir(dk, path) == normpath(path) \in DOMAIN dk /\ dk[normpath(path)] = "dir"

(***************************************************************************)
(* C7: calls made one after another: every call returns a directory that   *)
(* exists; what existed before a call is unchanged by it, and a call whose *)
(* directory existed creates nothing; calls with the same arguments return *)
(* the same path.  (SpecDirs)                                              *)
(***************************************************************************)
C7_CreateIfMissingIdempotent ==
  /\ \A p \in Procs : procs[p].pc /= "raised"
  /\ \A p \in Procs :
       Returned(p) =>
         /\ IsDir(disk, procs[p].ret)
         /\ \A q \in DOMAIN procs[p].before :
              q \in DOMAIN disk /\ disk[q] = procs[p].before[q]
         /\ IsDir(procs[p].before, procs[p].ret) => disk = procs[p].before
  /\ \A a, b \in returned : (a[1] = b[1] /\ a[2] = b[2]) => a[3] = b[3]

\* A later call for a model whose directory, with a file in it, was there
\* before the call has returned.
C7_Witness ==
  \E p \in Procs :
    /\ Returned(p) /\ procs[p].fn = "create_git_cml_model_dir" /\ calls >= 2
    /\ IsDir(procs[p].before, procs[p].ret)
    /\ join(procs[p].ret, <<"p">>) \in DOMAIN disk

(***************************************************************************)
(* C10: two processes that call create_git_cml or create_git_cml_model_dir *)
(* at the same time both return, in every interleaving of their checks and *)
(* creations.  (SpecDirsConc)                                              *)
(***************************************************************************)
C10_ConcurrentCallsReturn ==
  \A p \in Procs : procs[p].pc /= "raised"

====
